---- MODULE Spec2Model ----
(***************************************************************************)
(* Public-holidays app: the data-access layer.                             *)
(*                                                                         *)
(* The API client (services/holidaysApi.ts), the two query hooks           *)
(* (hooks/useCountries.ts, hooks/useHolidays.ts) with the retry, backoff,  *)
(* staleness and enabling policy they hand to the query cache, and the     *)
(* components that read them (App, CountrySelector, HolidayList).          *)
(*                                                                         *)
(* The query cache itself is @tanstack/react-query 5: each key owns one    *)
(* query (data, error, status, fetchStatus) and at most one retryer; the   *)
(* retryer runs the hook's queryFn, asks the hook's retry(failureCount,    *)
(* error) after each failure and sleeps retryDelay(failureCount) before    *)
(* the next attempt.  Of the cache, the model keeps what gives the hooks'  *)
(* options their meaning: fetch on arrival at a stale key, sharing of a    *)
(* running fetch, refetch(), retry and backoff, the error state, the       *)
(* cancelling of retries when the last observer leaves, and the collection *)
(* of unobserved queries.  The page stays visible and online throughout,   *)
(* so no refetch on window focus or reconnect occurs and no retry pauses.  *)
(***************************************************************************)
EXTENDS Integers, Sequences, FiniteSets, TLC

(* ------------------------------ bounds -------------------------------- *)

\* network calls issued in one behaviour
MaxCalls == 5

\* clock ticks (of Tick ms each) in one behaviour
MaxTicks == 3

\* items in the array of a response body
MaxLen == 2

\* entries in the list given to getLocalizedText
MaxEntries == 2

(* ------------------------- constants/api.ts --------------------------- *)

CACHE_TIMES_COUNTRIES == 1000 * 60 * 30

CACHE_TIMES_HOLIDAYS == 1000 * 60 * 15

MAX_RETRIES == 3

DELAY_MULTIPLIER == 1000

MAX_DELAY == 30000

\* the literals of useHolidays' retry and retryDelay
HOLIDAYS_RETRIES == 2

HOLIDAYS_MAX_DELAY == 10000

\* queryClient.ts sets staleTime and retry only (both overridden by the
\* hooks); unobserved queries are collected after the cache's 5 minutes.
GcTime == 1000 * 60 * 5

\* the clock advances in steps of five minutes: a query left without
\* observer at one tick is collected by the next
Tick == GcTime

(* ----------------------------- JS values ------------------------------ *)

\* an optional value (undefined or a value) is None or Some(v)
None == <<>>

Some(v) == <<v>>

Min(a, b) == IF a < b THEN a ELSE b

RECURSIVE Pow2(_)
Pow2(n) == IF n = 0 THEN 1 ELSE 2 * Pow2(n - 1)

\* String.prototype.includes on strings kept as sequences of characters
Includes(s, sub) ==
    \E i \in 1..(Len(s) - Len(sub) + 1) : SubSeq(s, i, i + Len(sub) - 1) = sub

ApiRequestFailedPrefix == <<"A", "P", "I", " ", "r", "e", "q", "u", "e", "s", "t", " ", "f", "a", "i", "l", "e", "d", ":", " ">>

NotFoundText == <<"N", "o", "t", " ", "F", "o", "u", "n", "d">>

InternalServerErrorText == <<"I", "n", "t", "e", "r", "n", "a", "l", " ", "S", "e", "r", "v", "e", "r", " ", "E", "r", "r", "o", "r">>

FailedToFetchText == <<"F", "a", "i", "l", "e", "d", " ", "t", "o", " ", "f", "e", "t", "c", "h">>

UnexpectedTokenText == <<"U", "n", "e", "x", "p", "e", "c", "t", "e", "d", " ", "t", "o", "k", "e", "n">>

InvalidFormatText == <<"I", "n", "v", "a", "l", "i", "d", " ", "A", "P", "I", " ", "r", "e", "s", "p", "o", "n", "s", "e", " ", "f", "o", "r", "m", "a", "t">>

Lit404 == <<"4", "0", "4">>

UnknownErrorText == <<"U", "n", "k", "n", "o", "w", "n", " ", "e", "r", "r", "o", "r", " ", "o", "c", "c", "u", "r", "r", "e", "d">>

(* ----------------------------- JSON values ----------------------------- *)

\* a JSON value is a pair <<type, payload>>; the type names are those of
\* zod's issues.  Absent stands for a property that is not there (undefined).
Absent == <<"undefined", 0>>

JNull == <<"null", 0>>

JStr(s) == <<"string", s>>

JNum(n) == <<"number", n>>

JBool(b) == <<"boolean", b>>

JArr(items) == <<"array", items>>

\* an object with the properties of the record rec
JObj(rec) == <<"object", rec>>

\* v[key] of an object: undefined when the property is not there
Get(v, key) == IF key \in DOMAIN v[2] THEN v[2][key] ELSE Absent

TypeOf(v) == v[1]

RECURSIVE Flatten(_)
Flatten(seqs) ==
    IF seqs = <<>> THEN <<>> ELSE Head(seqs) \o Flatten(Tail(seqs))

(* ------------------------- types/api.ts (zod) -------------------------- *)

\* the result of schema.parse: the output value, or the issues of the ZodError
ParseOk(data) == [success |-> TRUE, data |-> data, issues |-> <<>>]

ParseFail(issues) == [success |-> FALSE, data |-> Absent, issues |-> issues]

\* an issue of a ZodError: where (indexes written as strings), what was
\* expected and what its message says was received
InvalidType(path, expected, v) ==
    [code |-> "invalid_type", path |-> path, expected |-> expected,
     received |-> TypeOf(v)]

\* A schema is modelled by two operators: the issues its parse raises on a
\* value (none when the value passes), and the output of the parse for a
\* value that passes.

\* z.string()
zString(v, path) ==
    IF TypeOf(v) = "string" THEN <<>> ELSE <<InvalidType(path, "string", v)>>

\* z.boolean()
zBoolean(v, path) ==
    IF TypeOf(v) = "boolean" THEN <<>> ELSE <<InvalidType(path, "boolean", v)>>

\* the items of an array (none for what is not an array)
ItemsOf(v) == IF TypeOf(v) = "array" THEN v[2] ELSE <<>>

\* the place of item i of the array at path
At(path, i) == path \o <<ToString(i - 1)>>

\* z.array(element), given the issues of every item of v under element: the
\* issues of all items are collected
zArray(itemIssues, v, path) ==
    IF TypeOf(v) # "array" THEN <<InvalidType(path, "array", v)>>
    ELSE Flatten(itemIssues)

\* schema.optional(), given the issues of v under schema: undefined passes,
\* anything else goes to the schema
zOptional(issues, v) == IF v = Absent THEN <<>> ELSE issues

\* z.object({language: z.string(), text: z.string()})
LocalizedTextSchema(v, path) ==
    IF TypeOf(v) # "object" THEN <<InvalidType(path, "object", v)>>
    ELSE zString(Get(v, "language"), path \o <<"language">>)
           \o zString(Get(v, "text"), path \o <<"text">>)

\* the output of an object schema keeps the keys of the schema, and strips
\* the others
LocalizedTextOutput(v) ==
    JObj([language |-> Get(v, "language"), text |-> Get(v, "text")])

\* z.array(LocalizedTextSchema)
LocalizedTexts(v, path) ==
    zArray([i \in 1..Len(ItemsOf(v)) |-> LocalizedTextSchema(ItemsOf(v)[i], At(path, i))],
           v, path)

LocalizedTextsOutput(v) ==
    JArr([i \in 1..Len(ItemsOf(v)) |-> LocalizedTextOutput(ItemsOf(v)[i])])

\* z.array(z.string())
Strings(v, path) ==
    zArray([i \in 1..Len(ItemsOf(v)) |-> zString(ItemsOf(v)[i], At(path, i))],
           v, path)

CountrySchema(v, path) ==
    IF TypeOf(v) # "object" THEN <<InvalidType(path, "object", v)>>
    ELSE zString(Get(v, "isoCode"), path \o <<"isoCode">>)
           \o LocalizedTexts(Get(v, "name"), path \o <<"name">>)
           \o Strings(Get(v, "officialLanguages"), path \o <<"officialLanguages">>)

\* slip: the output of a country loses its official languages
CountryOutput_NoLanguages(v) ==
    JObj([isoCode |-> Get(v, "isoCode"),
          name |-> LocalizedTextsOutput(Get(v, "name")),
          officialLanguages |-> JArr(<<>>)])

CountryOutput(v) ==
    JObj([isoCode |-> Get(v, "isoCode"),
          name |-> LocalizedTextsOutput(Get(v, "name")),
          officialLanguages |-> Get(v, "officialLanguages")])

\* slip: a refinement turns down the holidays of more than one day
HolidaySchema_ChecksDates(v, path) ==
    IF TypeOf(v) # "object" THEN <<InvalidType(path, "object", v)>>
    ELSE zString(Get(v, "id"), path \o <<"id">>)
           \o zString(Get(v, "startDate"), path \o <<"startDate">>)
           \o zString(Get(v, "endDate"), path \o <<"endDate">>)
           \o zString(Get(v, "type"), path \o <<"type">>)
           \o zBoolean(Get(v, "nationwide"), path \o <<"nationwide">>)
           \o LocalizedTexts(Get(v, "name"), path \o <<"name">>)
           \o zOptional(LocalizedTexts(Get(v, "comment"), path \o <<"comment">>),
                        Get(v, "comment"))
           \o (IF Get(v, "startDate") # Get(v, "endDate")
               THEN <<[code |-> "custom", path |-> path \o <<"endDate">>,
                       expected |-> "date", received |-> "string"]>>
               ELSE <<>>)

HolidaySchema(v, path) ==
    IF TypeOf(v) # "object" THEN <<InvalidType(path, "object", v)>>
    ELSE zString(Get(v, "id"), path \o <<"id">>)
           \o zString(Get(v, "startDate"), path \o <<"startDate">>)
           \o zString(Get(v, "endDate"), path \o <<"endDate">>)
           \o zString(Get(v, "type"), path \o <<"type">>)
           \o zBoolean(Get(v, "nationwide"), path \o <<"nationwide">>)
           \o LocalizedTexts(Get(v, "name"), path \o <<"name">>)
           \o zOptional(LocalizedTexts(Get(v, "comment"), path \o <<"comment">>),
                        Get(v, "comment"))

\* an absent comment stays absent in the output
HolidayOutput(v) ==
    IF Get(v, "comment") = Absent
    THEN JObj([id |-> Get(v, "id"), startDate |-> Get(v, "startDate"),
               endDate |-> Get(v, "endDate"), type |-> Get(v, "type"),
               nationwide |-> Get(v, "nationwide"),
               name |-> LocalizedTextsOutput(Get(v, "name"))])
    ELSE JObj([id |-> Get(v, "id"), startDate |-> Get(v, "startDate"),
               endDate |-> Get(v, "endDate"), type |-> Get(v, "type"),
               nationwide |-> Get(v, "nationwide"),
               name |-> LocalizedTextsOutput(Get(v, "name")),
               comment |-> LocalizedTextsOutput(Get(v, "comment"))])

\* z.array(CountrySchema), as schema.parse(v) applies it
CountriesResponseSchema(v) ==
    IF zArray([i \in 1..Len(ItemsOf(v)) |-> CountrySchema(ItemsOf(v)[i], At(<<>>, i))],
              v, <<>>) = <<>>
    THEN ParseOk(JArr([i \in 1..Len(ItemsOf(v)) |-> CountryOutput(ItemsOf(v)[i])]))
    ELSE ParseFail(zArray([i \in 1..Len(ItemsOf(v)) |->
                              CountrySchema(ItemsOf(v)[i], At(<<>>, i))], v, <<>>))

\* z.array(HolidaySchema), as schema.parse(v) applies it
HolidaysResponseSchema(v) ==
    IF zArray([i \in 1..Len(ItemsOf(v)) |-> HolidaySchema(ItemsOf(v)[i], At(<<>>, i))],
              v, <<>>) = <<>>
    THEN ParseOk(JArr([i \in 1..Len(ItemsOf(v)) |-> HolidayOutput(ItemsOf(v)[i])]))
    ELSE ParseFail(zArray([i \in 1..Len(ItemsOf(v)) |->
                              HolidaySchema(ItemsOf(v)[i], At(<<>>, i))], v, <<>>))

(* --------------------------- the upstream API -------------------------- *)

Codes == {"CA", "US"}

LText(language, text) == JObj([language |-> JStr(language), text |-> JStr(text)])

CountryCA ==
    JObj([isoCode |-> JStr("CA"), name |-> JArr(<<LText("EN", "Canada")>>),
          officialLanguages |-> JArr(<<JStr("EN"), JStr("FR")>>)])

CountryUS ==
    JObj([isoCode |-> JStr("US"), name |-> JArr(<<LText("EN", "United States")>>),
          officialLanguages |-> JArr(<<JStr("EN")>>)])

\* a country without its name
CountryNoName ==
    JObj([isoCode |-> JStr("CA"), officialLanguages |-> JArr(<<JStr("EN")>>)])

\* a country whose isoCode is a number
CountryNumericCode ==
    JObj([isoCode |-> JNum(124), name |-> JArr(<<LText("EN", "Canada")>>),
          officialLanguages |-> JArr(<<JStr("EN")>>)])

HolidayNewYear ==
    JObj([id |-> JStr("h1"), startDate |-> JStr("2025-01-01"),
          endDate |-> JStr("2025-01-01"), type |-> JStr("Public"),
          nationwide |-> JBool(TRUE),
          name |-> JArr(<<LText("EN", "New Year's Day")>>)])

\* a holiday with a comment and a property the schema does not know
HolidayWithComment ==
    JObj([id |-> JStr("h2"), startDate |-> JStr("2025-07-01"),
          endDate |-> JStr("2025-07-01"), type |-> JStr("Public"),
          nationwide |-> JBool(TRUE),
          name |-> JArr(<<LText("EN", "Canada Day")>>),
          comment |-> JArr(<<LText("EN", "observed")>>),
          extra |-> JNum(1)])

\* a holiday whose comment is null
HolidayNullComment ==
    JObj([id |-> JStr("h3"), startDate |-> JStr("2025-12-25"),
          endDate |-> JStr("2025-12-25"), type |-> JStr("Public"),
          nationwide |-> JBool(FALSE),
          name |-> JArr(<<LText("EN", "Christmas")>>), comment |-> JNull])

\* a country whose name has an empty language code
CountryEmptyLanguage ==
    JObj([isoCode |-> JStr("CA"), name |-> JArr(<<LText("", "Canada")>>),
          officialLanguages |-> JArr(<<JStr("EN")>>)])

\* a holiday that ends before it starts
HolidayBackwards ==
    JObj([id |-> JStr("h4"), startDate |-> JStr("2025-05-02"),
          endDate |-> JStr("2025-05-01"), type |-> JStr("Public"),
          nationwide |-> JBool(TRUE),
          name |-> JArr(<<LText("EN", "Labour Day")>>)])

\* what the elements of a response array are drawn from
Items ==
    {CountryCA, CountryUS, CountryNoName, CountryNumericCode, CountryEmptyLanguage,
     HolidayNewYear, HolidayWithComment, HolidayNullComment, HolidayBackwards,
     JStr("x")}

\* the arrays of at most MaxLen items
JsonArrays ==
    {JArr(items) : items \in UNION {[1..n -> Items] : n \in 0..MaxLen}}

\* the JSON values a response body parses to
JsonValues == JsonArrays \cup {JNull, JStr("error"), CountryCA}

\* a response body: text that response.json() parses to value, or text it
\* cannot parse
JsonBody(value) == [isJson |-> TRUE, value |-> value]

NotJsonBody == [isJson |-> FALSE, value |-> JStr("<html>")]

Bodies == {NotJsonBody} \cup {JsonBody(v) : v \in JsonValues}

SchemaNames == {"CountriesResponseSchema", "HolidaysResponseSchema"}

\* the two response schemas applied to every JSON value of the model
ParseTable ==
    [schema \in SchemaNames |->
        [v \in JsonValues |->
            IF schema = "CountriesResponseSchema" THEN CountriesResponseSchema(v)
            ELSE HolidaysResponseSchema(v)]]

\* schema.parse(data) for the schema of that name
SchemaParse(schema, v) == ParseTable[schema][v]

CountriesBody == JsonBody(JArr(<<CountryCA, CountryUS>>))

HolidaysBody == JsonBody(JArr(<<HolidayNewYear, HolidayBackwards>>))

\* an answer without items
EmptyBody == JsonBody(JArr(<<>>))

\* the reason phrases a status comes with (empty over HTTP/2)
StatusTexts(status) ==
    IF status = 404 THEN {NotFoundText, <<>>}
    ELSE IF status = 500 THEN {InternalServerErrorText}
    ELSE {<<>>}

Statuses == {200, 299, 300, 404, 500}

\* what one HTTP exchange can bring back: the call itself rejects, or a
\* response with a status, a reason phrase and a body
Responses ==
    {[type |-> "reject", status |-> 0, statusText |-> FailedToFetchText,
      body |-> NotJsonBody]}
    \cup UNION {{[type |-> "http", status |-> s, statusText |-> st, body |-> b] :
                    st \in StatusTexts(s), b \in Bodies} : s \in Statuses}

\* the exchanges the cache is driven with: the call rejects, 404, a 200 with
\* the countries, a 200 with the holidays (each of the two bodies conforms to
\* the schema of one endpoint and not to the other's)
NetworkResponses ==
    {r \in Responses :
        \/ r.type = "reject"
        \/ r.status = 404 /\ r.statusText = NotFoundText /\ r.body = NotJsonBody
        \/ r.status = 200 /\ r.body \in {CountriesBody, HolidaysBody}}

\* Response.ok
ResponseOk(r) == r.status >= 200 /\ r.status <= 299

(* ------------------------- services/holidaysApi.ts --------------------- *)

HolidaysApiError(message, status) ==
    [name |-> "HolidaysApiError", message |-> message, status |-> status,
     cause |-> None]

ValidationError(message, cause) ==
    [name |-> "ValidationError", message |-> message, status |-> None,
     cause |-> cause]

\* what the try block of fetchWithValidation throws
Thrown(class, message, status, issues) ==
    [class |-> class, message |-> message, status |-> status, issues |-> issues]

\* the promise of fetchWithValidation; bodyUsed tells whether response.json()
\* was called
Resolved(value) ==
    [ok |-> TRUE, value |-> Some(value), error |-> None, bodyUsed |-> TRUE]

Rejected(error, bodyUsed) ==
    [ok |-> FALSE, value |-> None, error |-> Some(error), bodyUsed |-> bodyUsed]

\* the try block on the exchange r that fetch(url) brought: the validated
\* data it returns, or what it throws
TryFetch(url, schema, r) ==
    IF r.type = "reject"
    THEN [returned |-> FALSE, data |-> Absent, bodyUsed |-> FALSE,
          thrown |-> Thrown("TypeError", r.statusText, None, <<>>)]
    ELSE IF ~ResponseOk(r)
    THEN [returned |-> FALSE, data |-> Absent, bodyUsed |-> FALSE,
          thrown |-> Thrown("HolidaysApiError",
                            ApiRequestFailedPrefix \o r.statusText,
                            Some(r.status), <<>>)]
    ELSE IF ~r.body.isJson
    THEN [returned |-> FALSE, data |-> Absent, bodyUsed |-> TRUE,
          thrown |-> Thrown("SyntaxError", UnexpectedTokenText, None, <<>>)]
    ELSE LET parsed == SchemaParse(schema, r.body.value)
         IN  IF parsed.success
             THEN [returned |-> TRUE, data |-> parsed.data, bodyUsed |-> TRUE,
                   thrown |-> Thrown("none", <<>>, None, <<>>)]
             ELSE [returned |-> FALSE, data |-> Absent, bodyUsed |-> TRUE,
                   thrown |-> Thrown("ZodError", <<>>, None, parsed.issues)]

\* slip: the catch block does not single out the ZodError
fetchWithValidation_NoZodBranch(url, schema, r) ==
    LET try == TryFetch(url, schema, r)
        error == try.thrown
    IN  IF try.returned
        THEN Resolved([url |-> url, value |-> try.data])
        ELSE IF error.class = "HolidaysApiError"
        THEN Rejected(HolidaysApiError(error.message, error.status), try.bodyUsed)
        ELSE Rejected(HolidaysApiError(error.message, None), try.bodyUsed)

\* slip: the HolidaysApiError thrown for a bad status is wrapped again, which
\* loses its status
fetchWithValidation_DropsStatus(url, schema, r) ==
    LET try == TryFetch(url, schema, r)
        error == try.thrown
    IN  IF try.returned
        THEN Resolved([url |-> url, value |-> try.data])
        ELSE IF error.class = "ZodError"
        THEN Rejected(ValidationError(InvalidFormatText, Some(error)), try.bodyUsed)
        ELSE Rejected(HolidaysApiError(error.message, None), try.bodyUsed)

\* slip: what is neither ZodError nor HolidaysApiError loses its message
fetchWithValidation_UnknownMessage(url, schema, r) ==
    LET try == TryFetch(url, schema, r)
        error == try.thrown
    IN  IF try.returned
        THEN Resolved([url |-> url, value |-> try.data])
        ELSE IF error.class = "ZodError"
        THEN Rejected(ValidationError(InvalidFormatText, Some(error)), try.bodyUsed)
        ELSE IF error.class = "HolidaysApiError"
        THEN Rejected(HolidaysApiError(error.message, error.status), try.bodyUsed)
        ELSE Rejected(HolidaysApiError(UnknownErrorText, None), try.bodyUsed)

\* fetchWithValidation(url, schema) on the exchange r that fetch(url) brought:
\* the outcome of the promise.  A resolved value carries the url it was
\* fetched from.
fetchWithValidation(url, schema, r) ==
    LET try == TryFetch(url, schema, r)
        error == try.thrown
    IN  IF try.returned
        THEN Resolved([url |-> url, value |-> try.data])
        ELSE IF error.class = "ZodError"
        THEN Rejected(ValidationError(InvalidFormatText, Some(error)), try.bodyUsed)
        ELSE IF error.class = "HolidaysApiError"
        THEN Rejected(HolidaysApiError(error.message, error.status), try.bodyUsed)
        ELSE Rejected(HolidaysApiError(error.message, None), try.bodyUsed)

\* the page was loaded ten minutes before the calendar year changes
NewYearAt == 1000 * 60 * 10

\* new Date().getFullYear() at t ms after the page was loaded
GetFullYear(t) == IF t < NewYearAt THEN 2025 ELSE 2026

CountriesUrl == [path |-> "/Countries"]

fetchCountries == CountriesUrl

\* the url fetchHolidays(countryIsoCode, year) requests at time t
fetchHolidays(countryIsoCode, year, t) ==
    LET currentYear == IF year = None \/ year = Some(0) THEN GetFullYear(t) ELSE year[1]
    IN  [path |-> "/PublicHolidays", countryIsoCode |-> countryIsoCode,
         languageIsoCode |-> "EN",
         validFrom |-> <<currentYear, 1, 1>>, validTo |-> <<currentYear, 12, 31>>]

\* the schema the answer of url is validated against: fetchCountries passes
\* CountriesResponseSchema, fetchHolidays passes HolidaysResponseSchema
SchemaFor(url) ==
    IF url.path = "/Countries" THEN "CountriesResponseSchema"
    ELSE "HolidaysResponseSchema"

(* ------------------------------ the hooks ------------------------------ *)

CountriesKey == <<"countries">>

useCountriesKey == CountriesKey

\* slip of useHolidays' queryKey: the country is left out of the key
useHolidaysKey_NoCountry(countryIsoCode, year) == <<"holidays", "", year>>

\* slip of useHolidays' queryKey: the year is left out of the key
useHolidaysKey_NoYear(countryIsoCode, year) == <<"holidays", countryIsoCode, <<>>>>

useHolidaysKey(countryIsoCode, year) == <<"holidays", countryIsoCode, year>>

\* slip: the query is enabled whatever the country code
useHolidaysEnabled_Always(countryIsoCode) == TRUE

\* enabled: !!countryIsoCode
useHolidaysEnabled(countryIsoCode) == countryIsoCode # ""

\* slips of useCountries' retry: the validation test is missing; one retry
\* too many
useCountriesRetry_RetriesValidation(failureCount, error) ==
    failureCount < MAX_RETRIES

useCountriesRetry_OneMore(failureCount, error) ==
    IF error.name = "ValidationError" THEN FALSE
    ELSE failureCount <= MAX_RETRIES

useCountriesRetry(failureCount, error) ==
    IF error.name = "ValidationError" THEN FALSE
    ELSE failureCount < MAX_RETRIES

\* slip of useCountries' retryDelay: the exponent counts from 1
useCountriesRetryDelay_FromOne(attemptIndex) ==
    Min(DELAY_MULTIPLIER * Pow2(attemptIndex + 1), MAX_DELAY)

useCountriesRetryDelay(attemptIndex) ==
    Min(DELAY_MULTIPLIER * Pow2(attemptIndex), MAX_DELAY)

\* slip of useHolidays' retry: one retry too many
useHolidaysRetry_OneMore(failureCount, error) ==
    IF error.name = "ValidationError" THEN FALSE
    ELSE IF Includes(error.message, Lit404) THEN FALSE
    ELSE failureCount <= HOLIDAYS_RETRIES

useHolidaysRetry(failureCount, error) ==
    IF error.name = "ValidationError" THEN FALSE
    ELSE IF Includes(error.message, Lit404) THEN FALSE
    ELSE failureCount < HOLIDAYS_RETRIES

useHolidaysRetryDelay(attemptIndex) ==
    Min(DELAY_MULTIPLIER * Pow2(attemptIndex), HOLIDAYS_MAX_DELAY)

(* -------------------------------- state -------------------------------- *)

Components == {"CountrySelector", "HolidayList"}

\* HolidayList calls useHolidays(countryIsoCode): the year is left out
HolidayListYear == None

\* the year another consumer of useHolidays passes: the current one
ReaderYear == Some(GetFullYear(0))

\* the keys of the cache: those the components read, and those of a
\* consumer that calls useHolidays(countryIsoCode, year)
Keys == {useCountriesKey}
          \cup {useHolidaysKey(c, HolidayListYear) : c \in Codes \cup {""}}
          \cup {useHolidaysKey(c, ReaderYear) : c \in Codes}

VARIABLES
    now,              \* Date.now(), ms since the page was loaded
    selectedCountry,  \* App's useState('')
    mounted,          \* the components whose observers are subscribed
    queries,          \* the query cache: key -> query state and its retryer
    wire,             \* HTTP requests sent and not yet answered
    issued,           \* number of HTTP requests sent so far
    hist,             \* per key, the history the properties refer to
    client,           \* one call of the API client, on its own
    boundary          \* the state of App's ErrorBoundary

vars == <<now, selectedCountry, mounted, queries, wire, issued, hist, client, boundary>>

\* a query as the cache creates it
InitQuery ==
    [data |-> None, dataUpdatedAt |-> 0, error |-> None, status |-> "pending",
     fetchStatus |-> "idle", fetchFailureReason |-> None,
     phase |-> "none", failureCount |-> 0, isRetryCancelled |-> FALSE,
     delay |-> 0, url |-> None]

InitHist ==
    [attempts |-> 0, waits |-> <<>>, lastIssued |-> 0,
     dataSeq |-> 0, errorSeq |-> 0, fetched |-> FALSE]

\* no call of the API client on its own
ClientIdle == [stage |-> "idle"]

\* the page as it is loaded
InitApp ==
    /\ now = 0
    /\ selectedCountry = ""
    /\ mounted = {}
    /\ queries = [k \in Keys |-> InitQuery]
    /\ wire = {}
    /\ issued = 0
    /\ hist = [k \in Keys |-> InitHist]

\* ErrorBoundary's constructor
InitBoundary == [hasError |-> FALSE, error |-> None]

Init ==
    /\ InitApp
    /\ client = ClientIdle
    /\ boundary = InitBoundary

(* --------------------------- per-key policy ---------------------------- *)

IsCountries(k) == k[1] = "countries"

StaleTimeOf(k) ==
    IF IsCountries(k) THEN CACHE_TIMES_COUNTRIES ELSE CACHE_TIMES_HOLIDAYS

RetryOf(k, failureCount, error) ==
    IF IsCountries(k) THEN useCountriesRetry(failureCount, error)
    ELSE useHolidaysRetry(failureCount, error)

RetryDelayOf(k, attemptIndex) ==
    IF IsCountries(k) THEN useCountriesRetryDelay(attemptIndex)
    ELSE useHolidaysRetryDelay(attemptIndex)

\* the observers of a key: both components read the countries key,
\* HolidayList alone reads the holidays key of the country it is given
ObserversOf(k, comps, country) ==
    IF IsCountries(k) THEN comps
    ELSE IF "HolidayList" \in comps /\ k = useHolidaysKey(country, HolidayListYear)
         THEN {"HolidayList"}
         ELSE {}

Observers(k) == ObserversOf(k, mounted, selectedCountry)

(* ------------------------ the query and its retryer -------------------- *)

\* staleTime elapsed, or nothing cached
IsStale(q, staleTime, t) ==
    q.data = None \/ t >= q.dataUpdatedAt + staleTime

\* useQuery's isLoading
IsLoading(q) == q.status = "pending" /\ q.fetchStatus = "fetching"

\* slip: every read starts its own fetch
Dedupes_Never(q, cancelRefetch) == FALSE

\* a fetch of a key that is already fetching joins the running retryer,
\* unless it is a refetch() (cancelRefetch) of a key that holds data
Dedupes(q, cancelRefetch) ==
    q.fetchStatus # "idle" /\ ~(q.data # None /\ cancelRefetch)

ContinueRetry(q) == [q EXCEPT !.isRetryCancelled = FALSE]

\* slip: a new fetch cycle goes on counting where the last one stopped
QueryFetch_KeepsCount(q, url) ==
    [q EXCEPT !.fetchStatus = "fetching",
              !.fetchFailureReason = None,
              !.error = IF q.data = None THEN None ELSE @,
              !.status = IF q.data = None THEN "pending" ELSE @,
              !.phase = "inflight",
              !.isRetryCancelled = FALSE,
              !.delay = 0,
              !.url = Some(url)]

\* the query when a new fetch cycle starts: a key without data goes back to
\* pending and drops its error, a key with data keeps status and error
QueryFetch(q, url) ==
    [q EXCEPT !.fetchStatus = "fetching",
              !.fetchFailureReason = None,
              !.error = IF q.data = None THEN None ELSE @,
              !.status = IF q.data = None THEN "pending" ELSE @,
              !.phase = "inflight",
              !.failureCount = 0,
              !.isRetryCancelled = FALSE,
              !.delay = 0,
              !.url = Some(url)]

\* slip: the superseded retryer keeps listening
CancelSilent_KeepsListening(w, k) == w

\* cancel({silent: true}) of key k's retryer, seen from a request on the
\* wire: the request is not aborted, its retryer stops listening
CancelSilent(w, k) ==
    IF w.key = k THEN [w EXCEPT !.resolved = TRUE] ELSE w

\* the last observer leaves: a running retryer retries no more (the
\* request it has sent is not aborted)
RemoveObserver(q) ==
    [q EXCEPT !.isRetryCancelled = IF q.fetchStatus # "idle" THEN TRUE ELSE @]

\* a query left idle and without observer for GcTime is removed from the
\* cache: the key starts from scratch when it is read again
Collected(q, observed) ==
    IF ~observed /\ q.fetchStatus = "idle" THEN InitQuery ELSE q

\* the query after a successful attempt
QuerySuccess(q, value, t) ==
    [q EXCEPT !.data = Some(value), !.dataUpdatedAt = t, !.error = None,
              !.status = "success", !.fetchStatus = "idle",
              !.fetchFailureReason = None, !.failureCount = 0,
              !.phase = "none", !.delay = 0]

\* slip: giving up empties the entry
QueryError_DropsData(q, error) ==
    [q EXCEPT !.data = None, !.error = Some(error), !.status = "error",
              !.fetchStatus = "idle", !.fetchFailureReason = Some(error),
              !.phase = "none", !.delay = 0]

\* the query after the retryer gave up with error
QueryError(q, error) ==
    [q EXCEPT !.error = Some(error), !.status = "error", !.fetchStatus = "idle",
              !.fetchFailureReason = Some(error),
              !.phase = "none", !.delay = 0]

\* slip: every failed attempt is exposed as the key's error
QueryFailed_ExposesError(q, error, delay) ==
    [q EXCEPT !.failureCount = @ + 1, !.fetchFailureReason = Some(error),
              !.error = Some(error), !.status = "error",
              !.phase = "backoff", !.delay = delay]

\* the query after a failed attempt that is retried after delay
QueryFailed(q, error, delay) ==
    [q EXCEPT !.failureCount = @ + 1, !.fetchFailureReason = Some(error),
              !.phase = "backoff", !.delay = delay]

(* ------------------------------ components ---------------------------- *)

\* slip: an answer without holidays is shown as a failure
HolidayListView_EmptyIsError(countryIsoCode, q) ==
    IF countryIsoCode = "" THEN "null"
    ELSE IF q.error # None THEN "error"
    ELSE IF IsLoading(q) THEN "skeleton"
    ELSE IF q.data # None /\ Len(ItemsOf(q.data[1].value)) > 0 THEN "list"
    ELSE IF q.data # None THEN "error"
    ELSE "empty"

\* what HolidayList renders for the country it is given and the query q that
\* useHolidays(countryIsoCode) exposes
HolidayListView(countryIsoCode, q) ==
    IF countryIsoCode = "" THEN "null"
    ELSE IF q.error # None THEN "error"
    ELSE IF IsLoading(q) THEN "skeleton"
    ELSE IF q.data # None /\ Len(ItemsOf(q.data[1].value)) > 0 THEN "list"
    ELSE "empty"

\* the year HolidayList names in its heading and in its empty message, when
\* it renders at time t
HolidayListCurrentYear(t) == GetFullYear(t)

\* the dates HolidayCard shows for the holiday it is given: the start, and the
\* end as well when it differs from the start
HolidayCardDates(holiday) ==
    IF Get(holiday, "startDate") # Get(holiday, "endDate")
    THEN <<Get(holiday, "startDate"), Get(holiday, "endDate")>>
    ELSE <<Get(holiday, "startDate")>>

(* ------------------------------- actions ------------------------------- *)

\* slip: a cancelled retryer still stores what its request brings
IsResolved_Never(w) == FALSE

\* the retryer that sent w was cancelled (superseded by a refetch)
IsResolved(w) == w.resolved

\* the seq-th request sent for key k
Request(k, seq, url) == [key |-> k, seq |-> seq, url |-> url, resolved |-> FALSE]

\* slip: a fetch of a key whose data is within its staleTime is skipped
ExecuteFetch_OnlyWhenStale(qs, k, url, cancelRefetch) ==
    IF Dedupes(qs[k], cancelRefetch) \/ ~IsStale(qs[k], StaleTimeOf(k), now)
    THEN /\ queries' = [qs EXCEPT ![k] = ContinueRetry(@)]
         /\ UNCHANGED <<wire, issued, hist>>
    ELSE /\ issued < MaxCalls
         /\ issued' = issued + 1
         /\ queries' = [qs EXCEPT ![k] = QueryFetch(@, url)]
         /\ wire' = {CancelSilent(w, k) : w \in wire}
                        \cup {Request(k, hist[k].lastIssued + 1, url)}
         /\ hist' = [hist EXCEPT ![k].attempts = 1, ![k].waits = <<>>,
                                 ![k].lastIssued = @ + 1]

\* query.fetch(options, {cancelRefetch}) on key k, in a handler that has
\* already turned the cache into qs: join the running retryer, or start a
\* retryer (after silently cancelling the running one) and send a request
ExecuteFetch(qs, k, url, cancelRefetch) ==
    IF Dedupes(qs[k], cancelRefetch)
    THEN /\ queries' = [qs EXCEPT ![k] = ContinueRetry(@)]
         /\ UNCHANGED <<wire, issued, hist>>
    ELSE /\ issued < MaxCalls
         /\ issued' = issued + 1
         /\ queries' = [qs EXCEPT ![k] = QueryFetch(@, url)]
         /\ wire' = {CancelSilent(w, k) : w \in wire}
                        \cup {Request(k, hist[k].lastIssued + 1, url)}
         /\ hist' = [hist EXCEPT ![k].attempts = 1, ![k].waits = <<>>,
                                 ![k].lastIssued = @ + 1]

\* an observer arrives at key k (subscribe, or a change of key): fetch when
\* the query is enabled and stale
FetchOnArrival(qs, k, enabled, url) ==
    IF enabled /\ IsStale(qs[k], StaleTimeOf(k), now)
    THEN ExecuteFetch(qs, k, url, FALSE)
    ELSE /\ queries' = qs
         /\ UNCHANGED <<wire, issued, hist>>

\* a component's effects run: its useCountries observer subscribes
\* (HolidayList's useHolidays('') observer is disabled and fetches nothing).
\* The components are rendered while the ErrorBoundary has caught nothing.
Mount(c) ==
    /\ ~boundary.hasError
    /\ c \notin mounted
    /\ mounted' = mounted \cup {c}
    /\ FetchOnArrival(queries, useCountriesKey, TRUE, fetchCountries)
    /\ UNCHANGED <<now, selectedCountry, client, boundary>>

\* the <select> is rendered when useCountries has no error and is not loading;
\* its options are '' and the countries of the data
SelectRendered ==
    /\ queries[useCountriesKey].error = None
    /\ ~IsLoading(queries[useCountriesKey])

\* the values of the <option>s made from the countries (next to '')
CountryOptions(q) ==
    IF q.data = None THEN {}
    ELSE {Get(ItemsOf(q.data[1].value)[i], "isoCode")[2] :
             i \in 1..Len(ItemsOf(q.data[1].value))}

\* slip: the handler keeps a country once one is selected
handleCountryChange_KeepsCountry(countryCode) ==
    /\ mounted = Components
    /\ SelectRendered
    /\ countryCode # selectedCountry
    /\ countryCode # "" => countryCode \in CountryOptions(queries[useCountriesKey])
    /\ selectedCountry' = IF selectedCountry = "" THEN countryCode ELSE selectedCountry
    /\ LET old == useHolidaysKey(selectedCountry, HolidayListYear)
           new == useHolidaysKey(countryCode, HolidayListYear)
           qs  == [queries EXCEPT ![old] = RemoveObserver(@)]
       IN  FetchOnArrival(qs, new, useHolidaysEnabled(countryCode),
                          fetchHolidays(countryCode, HolidayListYear, now))
    /\ UNCHANGED <<now, mounted, client, boundary>>

\* CountrySelector.handleChange -> App.handleCountryChange; HolidayList's
\* useHolidays observer then leaves the old key and arrives at the new one
handleCountryChange(countryCode) ==
    /\ mounted = Components
    /\ SelectRendered
    /\ countryCode # selectedCountry
    /\ countryCode # "" => countryCode \in CountryOptions(queries[useCountriesKey])
    /\ selectedCountry' = countryCode
    /\ LET old == useHolidaysKey(selectedCountry, HolidayListYear)
           new == useHolidaysKey(countryCode, HolidayListYear)
           qs  == [queries EXCEPT ![old] = RemoveObserver(@)]
       IN  FetchOnArrival(qs, new, useHolidaysEnabled(countryCode),
                          fetchHolidays(countryCode, HolidayListYear, now))
    /\ UNCHANGED <<now, mounted, client, boundary>>

\* CountrySelector shows ErrorDisplay when error is set; Try Again -> refetch()
CountrySelectorRetry ==
    /\ mounted = Components
    /\ queries[useCountriesKey].error # None
    /\ ExecuteFetch(queries, useCountriesKey, fetchCountries, TRUE)
    /\ UNCHANGED <<now, selectedCountry, mounted, client, boundary>>

\* HolidayList shows ErrorDisplay when a country is selected and error is
\* set; Try Again -> refetch()
HolidayListRetry ==
    LET k == useHolidaysKey(selectedCountry, HolidayListYear)
    IN  /\ mounted = Components
        /\ selectedCountry # ""
        /\ queries[k].error # None
        /\ ExecuteFetch(queries, k,
                        fetchHolidays(selectedCountry, HolidayListYear, now), TRUE)
        /\ UNCHANGED <<now, selectedCountry, mounted, client, boundary>>

\* fetch(url) of request w is answered by r and fetchWithValidation resolves:
\* the retryer stores the value, unless it was cancelled in the meantime
AttemptSucceeds(w, r) ==
    LET res == fetchWithValidation(w.url, SchemaFor(w.url), r)
        k   == w.key
    IN  /\ mounted = Components
        /\ w \in wire
        /\ res.ok
        /\ wire' = wire \ {w}
        /\ IF IsResolved(w)
           THEN UNCHANGED <<queries, hist>>
           ELSE /\ queries' = [queries EXCEPT ![k] = QuerySuccess(@, res.value[1], now)]
                /\ hist' = [hist EXCEPT ![k].dataSeq = w.seq,
                                        ![k].fetched = TRUE]
        /\ UNCHANGED <<now, selectedCountry, mounted, issued, client, boundary>>

\* fetch(url) of request w is answered by r and fetchWithValidation throws:
\* the retryer asks retry(failureCount, error) and either sleeps
\* retryDelay(failureCount) or gives up, unless it was cancelled meanwhile
AttemptFails(w, r) ==
    LET res   == fetchWithValidation(w.url, SchemaFor(w.url), r)
        k     == w.key
        q     == queries[k]
        error == res.error[1]
        delay == RetryDelayOf(k, q.failureCount)
        shouldRetry == RetryOf(k, q.failureCount, error)
    IN  /\ mounted = Components
        /\ w \in wire
        /\ ~res.ok
        /\ wire' = wire \ {w}
        /\ IF IsResolved(w)
           THEN UNCHANGED <<queries, hist>>
           ELSE IF q.isRetryCancelled \/ ~shouldRetry
           THEN /\ queries' = [queries EXCEPT ![k] = QueryError(@, error)]
                /\ hist' = [hist EXCEPT ![k].errorSeq = w.seq]
           ELSE /\ queries' = [queries EXCEPT ![k] = QueryFailed(@, error, delay)]
                /\ hist' = [hist EXCEPT ![k].waits = Append(@, delay)]
        /\ UNCHANGED <<now, selectedCountry, mounted, issued, client, boundary>>

\* the retryer's sleep ends: it runs the queryFn again, or gives up if the
\* retry was cancelled while it slept
RetryTimerFires(k) ==
    LET q == queries[k]
    IN  /\ q.phase = "backoff"
        /\ IF q.isRetryCancelled
           THEN /\ queries' = [queries EXCEPT
                                 ![k] = QueryError(@, q.fetchFailureReason[1])]
                /\ hist' = [hist EXCEPT ![k].errorSeq = hist[k].lastIssued]
                /\ UNCHANGED <<wire, issued>>
           ELSE /\ issued < MaxCalls
                /\ issued' = issued + 1
                /\ queries' = [queries EXCEPT ![k].phase = "inflight", ![k].delay = 0]
                /\ wire' = wire \cup {Request(k, hist[k].lastIssued + 1, q.url[1])}
                /\ hist' = [hist EXCEPT ![k].attempts = @ + 1,
                                        ![k].lastIssued = @ + 1]
        /\ UNCHANGED <<now, selectedCountry, mounted, client, boundary>>

\* five minutes pass.  Timers that are due fire first, the transport
\* answers or fails every request within that time, and the queries left
\* without observer are collected on the way (GcTime <= Tick)
TimePasses ==
    /\ mounted = Components
    /\ now < MaxTicks * Tick
    /\ wire = {}
    /\ \A k \in Keys : queries[k].phase # "backoff"
    /\ GcTime <= Tick
    /\ now' = now + Tick
    /\ queries' = [k \in Keys |-> Collected(queries[k], Observers(k) # {})]
    /\ hist' = [k \in Keys |->
                 IF queries'[k] = queries[k] THEN hist[k]
                 ELSE [InitHist EXCEPT !.lastIssued = hist[k].lastIssued,
                                       !.fetched = hist[k].fetched]]
    /\ UNCHANGED <<selectedCountry, mounted, wire, issued, client, boundary>>

Next ==
    \/ \E c \in Components : Mount(c)
    \/ \E c \in Codes \cup {""} : handleCountryChange(c)
    \/ CountrySelectorRetry
    \/ HolidayListRetry
    \/ \E w \in wire, r \in NetworkResponses : AttemptSucceeds(w, r)
    \/ \E w \in wire, r \in NetworkResponses : AttemptFails(w, r)
    \/ \E k \in Keys : RetryTimerFires(k)
    \/ TimePasses

Spec == Init /\ [][Next]_vars

(* ------------------------ the API client on its own ------------------- *)

\* the year arguments fetchHolidays is called with: none, or a year
YearArgs == {None} \cup {Some(y) : y \in {0, 1, 2024, 2026}}

\* the instants (ms after the page was loaded) a call is made at
Clocks == {0, NewYearAt}

\* a caller calls fetchCountries() or fetchHolidays(countryIsoCode, year)
ClientCalls ==
    {[fn |-> "fetchCountries", url |-> fetchCountries, countryIsoCode |-> "",
      year |-> None, at |-> 0]}
    \cup {[fn |-> "fetchHolidays", url |-> fetchHolidays(c, y, t),
            countryIsoCode |-> c, year |-> y, at |-> t] :
                c \in Codes, y \in YearArgs, t \in Clocks}

\* the function is called: it builds its url and awaits fetch(url)
ClientCall(call) ==
    /\ client.stage = "idle"
    /\ client' = [stage |-> "pending", call |-> call]
    /\ UNCHANGED <<now, selectedCountry, mounted, queries, wire, issued, hist, boundary>>

\* fetch(url) brings the exchange r and the promise of the call settles
ClientSettle(r) ==
    /\ client.stage = "pending"
    /\ client' = [stage |-> "settled", call |-> client.call, response |-> r,
                  outcome |-> fetchWithValidation(client.call.url,
                                                  SchemaFor(client.call.url), r)]
    /\ UNCHANGED <<now, selectedCountry, mounted, queries, wire, issued, hist, boundary>>

ClientNext ==
    \/ \E call \in ClientCalls : ClientCall(call)
    \/ \E r \in Responses : ClientSettle(r)

\* one call of fetchCountries or fetchHolidays against every exchange
ClientSpec == Init /\ [][ClientNext]_vars

(* ---------------------- getLocalizedText on its own ------------------- *)

\* String.prototype.toLowerCase, on the letters of the language codes
LowerChar(c) ==
    CASE c = "E" -> "e"
      [] c = "N" -> "n"
      [] c = "D" -> "d"
      [] OTHER -> c

toLowerCase(s) == [i \in 1..Len(s) |-> LowerChar(s[i])]

\* the default of the parameter preferredLanguage
DefaultPreferredLanguage == <<"e", "n">>

UnknownText == "Unknown"

\* items.find(predicate) for the predicate of getLocalizedText: the first
\* item whose language is preferredLanguage, case put aside
FindPreferred(items, preferredLanguage) ==
    LET hits == {i \in 1..Len(items) :
                    toLowerCase(items[i].language) = toLowerCase(preferredLanguage)}
    IN  IF hits = {} THEN None
        ELSE Some(items[CHOOSE i \in hits : \A j \in hits : i <= j])

\* getLocalizedText(items, preferredLanguage): a || b takes b when a is
\* undefined or the empty string
getLocalizedText(items, preferredLanguage) ==
    LET language  == IF preferredLanguage = None THEN DefaultPreferredLanguage
                     ELSE preferredLanguage[1]
        preferred == FindPreferred(items, language)
    IN  IF preferred # None /\ preferred[1].text # "" THEN preferred[1].text
        ELSE IF items # <<>> /\ items[1].text # "" THEN items[1].text
        ELSE UnknownText

\* the language codes and the texts of the entries
LanguageCodes == {<<"e", "n">>, <<"E", "N">>, <<"d", "e">>, <<>>}

Texts == {"", "Christmas", "Weihnachten"}

Entries == [language : LanguageCodes, text : Texts]

EntryLists == UNION {[1..n -> Entries] : n \in 0..MaxEntries}

PreferredArgs == {None, Some(<<"E", "n">>), Some(<<"D", "E">>)}

\* a caller calls getLocalizedText(items) or getLocalizedText(items, preferred)
getLocalizedTextCall(items, preferredLanguage) ==
    /\ client.stage = "idle"
    /\ client' = [stage |-> "returned", items |-> items,
                  preferredLanguage |-> preferredLanguage,
                  result |-> getLocalizedText(items, preferredLanguage)]
    /\ UNCHANGED <<now, selectedCountry, mounted, queries, wire, issued, hist, boundary>>

TextNext ==
    \E items \in EntryLists, preferredLanguage \in PreferredArgs :
        getLocalizedTextCall(items, preferredLanguage)

\* one call of getLocalizedText on every list of entries
TextSpec == Init /\ [][TextNext]_vars

(* ------------------- the page inside its ErrorBoundary ---------------- *)

\* slip: a later render forgets the error
getDerivedStateFromError_Forgets(error) == [hasError |-> FALSE, error |-> Some(error)]

\* ErrorBoundary.getDerivedStateFromError
getDerivedStateFromError(error) == [hasError |-> TRUE, error |-> Some(error)]

\* ErrorBoundary.render for its state and its fallback prop
ErrorBoundaryRender(state, fallback) ==
    IF state.hasError
    THEN IF fallback # None THEN fallback[1] ELSE "Something went wrong"
    ELSE "children"

\* the fallback props an ErrorBoundary is given (App gives none)
Fallbacks == {None, Some("fallback")}

\* the errors a descendant throws while it renders
RenderErrors == {"Cannot read properties of undefined"}

\* the 200 answers the page is shown with: the countries, the holidays, no
\* items
PageResponses ==
    {r \in Responses :
        /\ r.type = "http"
        /\ r.status = 200
        /\ r.body \in {CountriesBody, HolidaysBody, EmptyBody}}

\* a descendant of the boundary throws while it renders: the boundary takes
\* the error, and React unmounts the children, whose observers unsubscribe
RenderThrows(error) ==
    /\ ~boundary.hasError
    /\ boundary' = getDerivedStateFromError(error)
    /\ mounted' = {}
    /\ queries' = [k \in Keys |->
                     IF Observers(k) # {} THEN RemoveObserver(queries[k])
                     ELSE queries[k]]
    /\ UNCHANGED <<now, selectedCountry, wire, issued, hist, client>>

\* Refresh Page -> window.location.reload(): the page is loaded anew
Reload ==
    /\ boundary.hasError
    /\ now' = 0
    /\ selectedCountry' = ""
    /\ mounted' = {}
    /\ queries' = [k \in Keys |-> InitQuery]
    /\ wire' = {}
    /\ issued' = 0
    /\ hist' = [k \in Keys |-> InitHist]
    /\ boundary' = InitBoundary
    /\ UNCHANGED client

\* the page at one instant: the components and their handlers (which are
\* there while the components are mounted), the answers, a throw, a reload
PageNext ==
    \/ \E c \in Components : Mount(c)
    \/ \E c \in Codes \cup {""} : handleCountryChange(c)
    \/ CountrySelectorRetry
    \/ HolidayListRetry
    \/ \E w \in wire, r \in PageResponses : AttemptSucceeds(w, r)
    \/ \E w \in wire, r \in PageResponses : AttemptFails(w, r)
    \/ \E error \in RenderErrors : RenderThrows(error)
    \/ Reload

PageSpec == Init /\ [][PageNext]_vars

(* ------------------ useHolidays with and without a year ---------------- *)

\* a consumer renders useHolidays(countryIsoCode) or
\* useHolidays(countryIsoCode, year): its observer arrives at the key
UseHolidaysRead(countryIsoCode, year) ==
    /\ mounted = Components
    /\ FetchOnArrival(queries, useHolidaysKey(countryIsoCode, year),
                      useHolidaysEnabled(countryIsoCode),
                      fetchHolidays(countryIsoCode, year, now))
    /\ UNCHANGED <<now, selectedCountry, mounted, client, boundary>>

\* consumers that read the holidays of a country with the year left out and
\* with the current year, at one instant
KeysNext ==
    \/ \E c \in Components : Mount(c)
    \/ \E c \in Codes, year \in {HolidayListYear, ReaderYear} : UseHolidaysRead(c, year)
    \/ \E w \in wire, r \in NetworkResponses : AttemptSucceeds(w, r)
    \/ \E w \in wire, r \in NetworkResponses : AttemptFails(w, r)
    \/ \E k \in Keys : RetryTimerFires(k)

KeysSpec == Init /\ [][KeysNext]_vars

(* ----------------------- the hooks under any consumer ------------------ *)

\* the url the queryFn of key k requests at time t
QueryFnUrl(k, t) ==
    IF IsCountries(k) THEN fetchCountries ELSE fetchHolidays(k[2], k[3], t)

\* a consumer calls the refetch() that useCountries() or useHolidays(code)
\* returned to it, whatever the state of the key
Refetch(k) ==
    /\ mounted = Components
    /\ Observers(k) # {}
    /\ IF IsCountries(k) THEN TRUE ELSE useHolidaysEnabled(k[2])
    /\ ExecuteFetch(queries, k, QueryFnUrl(k, now), TRUE)
    /\ UNCHANGED <<now, selectedCountry, mounted, client, boundary>>

\* the components, the clock and an upstream that answers every request
\* with a conforming body, with a consumer that may call refetch() at any time
HooksNext ==
    \/ \E c \in Components : Mount(c)
    \/ \E c \in Codes \cup {""} : handleCountryChange(c)
    \/ \E w \in wire, r \in NetworkResponses : AttemptSucceeds(w, r)
    \/ TimePasses
    \/ \E k \in Keys : Refetch(k)

HooksSpec == Init /\ [][HooksNext]_vars

(* ============================ properties =============================== *)

HolidaysKeys == {k \in Keys : ~IsCountries(k)}

\* the requests of key k on the wire, and those a retryer still listens to
OnWire(k) == {w \in wire : w.key = k}

Live(k) == {w \in wire : w.key = k /\ ~w.resolved}

IsValidation(e) == e.name = "ValidationError"

IsNotFound(e) == e.status = Some(404)

\* the key ended its fetch cycle in error
Errored(k) == queries[k].status = "error" /\ queries[k].fetchStatus = "idle"

\* sequence number of the first request of key k's current fetch cycle
CycleStart(k) == hist[k].lastIssued - hist[k].attempts + 1

(* ---- C1 ---- *)

\* C1: a holidays attempt answered with HTTP 404 is not retried: the failure
\* carrying status 404 ends the fetch cycle at once, the key is Errored.
C1_NotFoundNotRetried ==
    \A k \in HolidaysKeys :
        LET q == queries[k]
        IN  (q.fetchFailureReason # None /\ IsNotFound(q.fetchFailureReason[1]))
                => (Errored(k) /\ q.phase = "none" /\ Live(k) = {})

(* ---- C2 ---- *)

\* C2: for the countries key and every holidays key, an attempt that fails
\* with a ValidationError ends the fetch cycle whatever the failure count:
\* the key is Errored, no retry is scheduled and no request is in flight.
C2_ValidationTerminal ==
    \A k \in Keys :
        LET q == queries[k]
        IN  (q.fetchFailureReason # None /\ IsValidation(q.fetchFailureReason[1]))
                => (Errored(k) /\ q.phase = "none" /\ Live(k) = {})

\* a validation failure met on a retry (failure count above 0), on the
\* countries key
C2_Witness ==
    LET q == queries[useCountriesKey]
    IN  /\ q.error # None /\ IsValidation(q.error[1])
        /\ hist[useCountriesKey].attempts >= 2

(* ---- C3 ---- *)

C3_CountriesGaveUp ==
    LET q == queries[useCountriesKey]
    IN  /\ Errored(useCountriesKey)
        /\ ~IsValidation(q.error[1])

C4_CountriesBackoff ==
    LET w == hist[useCountriesKey].waits
    IN  /\ Len(w) <= 3
        /\ w = SubSeq(<<1000, 2000, 4000>>, 1, Len(w))
        /\ \A i \in 1..Len(w) :
              /\ w[i] = Min(1000 * (2 ^ (i - 1)), 30000)
              /\ w[i] <= 30000
        /\ queries[useCountriesKey].phase = "backoff"
              => queries[useCountriesKey].delay = w[Len(w)]

C4_Witness ==
    /\ hist[useCountriesKey].waits = <<1000, 2000, 4000>>
    /\ queries[useCountriesKey].phase = "inflight"

(* ---- C5 ---- *)

\* C5 as stated: a holidays fetch cycle makes at most 2 attempts.
C5_TwoAttempts ==
    \A k \in HolidaysKeys : hist[k].attempts <= 2

\* the holidays key gave up on a retriable failure (not 404, not validation)
\* while its retryer was allowed to retry
C5_HolidaysGaveUp(k) ==
    LET q == queries[k]
    IN  /\ Errored(k)
        /\ ~IsValidation(q.error[1])
        /\ ~IsNotFound(q.error[1])
        /\ ~q.isRetryCancelled

\* C5 amended: a holidays fetch cycle makes at most 3 attempts (the first
\* attempt and 2 retries); under persistent retriable failure an observed key
\* is Errored after exactly 3, and the waits are min(1000 * 2^attempt, 10000).
C5_ThreeAttempts ==
    \A k \in HolidaysKeys :
        LET w == hist[k].waits
        IN  /\ hist[k].attempts <= 3
            /\ C5_HolidaysGaveUp(k) => hist[k].attempts = 3
            /\ Len(w) <= 2
            /\ \A i \in 1..Len(w) : w[i] = Min(1000 * (2 ^ (i - 1)), 10000)
            /\ queries[k].phase = "backoff" => queries[k].delay = w[Len(w)]

C5_Witness ==
    \E k \in HolidaysKeys :
        /\ C5_HolidaysGaveUp(k)
        /\ queries[k].error[1].message = FailedToFetchText
        /\ hist[k].waits = <<1000, 2000>>

(* ---- C6 ---- *)

\* C6 as stated: while a fetch cycle of a key still runs, the key exposes no
\* error to its readers.
C6_NoErrorWhileFetching ==
    \A k \in Keys :
        (Observers(k) # {} /\ queries[k].fetchStatus = "fetching")
            => queries[k].error = None

\* the attempts a fetch cycle of key k may make
C6_Ceiling(k) == IF IsCountries(k) THEN 4 ELSE 3

\* C6 amended: while a fetch cycle runs, no failure of that cycle is exposed:
\* a key without data exposes no error, a key with data keeps exposing the
\* error its previous cycle left.  A successful attempt leaves data and no
\* error.  An error is stored only when the attempts are exhausted, at once
\* for a validation error, or when the key has lost its last observer.
C6_ErrorOnlyWhenGivenUp ==
    /\ [](\A k \in Keys :
            LET q == queries[k]
            IN  /\ (q.fetchStatus = "fetching" /\ q.error # None)
                    => (q.data # None /\ hist[k].errorSeq < CycleStart(k))
                /\ q.status = "success" => (q.data # None /\ q.error = None)
                /\ q.status = "error" => q.error # None)
    /\ [][\A k \in Keys :
            hist'[k].errorSeq # hist[k].errorSeq /\ hist'[k].errorSeq # 0
                => /\ queries'[k].error # None
                   /\ queries'[k].fetchStatus = "idle"
                   /\ \/ IsValidation(queries'[k].error[1])
                      \/ hist[k].attempts = C6_Ceiling(k)
                      \/ queries[k].isRetryCancelled]_vars

\* a transient failure recovered: a cycle that slept at least once ended in
\* success
C6_Witness ==
    \E k \in Keys :
        /\ queries[k].status = "success"
        /\ queries[k].fetchStatus = "idle"
        /\ hist[k].waits # <<>>

(* ---- C7 ---- *)

\* C7: while a key holds no data, all its readers share one request: never
\* two requests of the key on the wire, and the first fetch cycle of the
\* countries key, read by CountrySelector and HolidayList, has sent one
\* request when both have subscribed.
C7_ReadersShareOneRequest ==
    /\ \A k \in Keys :
          queries[k].data = None => Cardinality(OnWire(k)) <= 1
    /\ \A k \in Keys :
          queries[k].phase = "inflight"
              => hist[k].attempts = queries[k].failureCount + 1
    /\ (/\ mounted = Components
        /\ queries[useCountriesKey].fetchStatus = "fetching"
        /\ queries[useCountriesKey].failureCount = 0
        /\ hist[useCountriesKey].errorSeq = 0
        /\ hist[useCountriesKey].dataSeq = 0)
          => hist[useCountriesKey].lastIssued = 1

C7_Witness ==
    /\ Observers(useCountriesKey) = Components
    /\ queries[useCountriesKey].phase = "inflight"
    /\ hist[useCountriesKey].lastIssued = 1
    /\ Cardinality(OnWire(useCountriesKey)) = 1

(* ---- C8 ---- *)

\* C8 as stated: at most one request per key is on the wire.
C8_AtMostOneInFlight ==
    \A k \in Keys : Cardinality(OnWire(k)) <= 1

\* C8 amended: at most one request per key is listened to by a retryer, and
\* it is there exactly while the key's retryer is in flight; a request
\* superseded by a refetch stays on the wire, and its answer changes nothing
\* in the cache.
C8_AtMostOneLive ==
    /\ [](\A k \in Keys :
            /\ Cardinality(Live(k)) <= 1
            /\ Live(k) # {} <=> queries[k].phase = "inflight")
    /\ [][\A w \in wire :
            (w \notin wire' /\ w.resolved) => queries' = queries]_vars

\* a refetch of a key that was fetching: two requests of the key on the wire,
\* one of them superseded
C8_Witness ==
    \E k \in Keys :
        /\ Cardinality(OnWire(k)) = 2
        /\ Cardinality(Live(k)) = 1

(* ---- C9 ---- *)

\* C9: the data held under a holidays key was fetched with that key's
\* country code, also when its answer came after the selection had moved on;
\* what HolidayList reads for the selected country was fetched for it.
C9_NoCrossKeyData ==
    /\ \A k \in HolidaysKeys :
          /\ queries[k].data # None
                => queries[k].data[1].url.countryIsoCode = k[2]
          /\ \A w \in OnWire(k) : w.url.countryIsoCode = k[2]
    /\ LET q == queries[useHolidaysKey(selectedCountry, HolidayListYear)]
       IN  (selectedCountry # "" /\ q.data # None)
              => q.data[1].url.countryIsoCode = selectedCountry

\* the selection moved from A to B while A was fetching, and A's answer has
\* been stored under A since
C9_Witness ==
    \E a \in Codes, b \in Codes :
        /\ a # b
        /\ selectedCountry = b
        /\ queries[useHolidaysKey(a, HolidayListYear)].isRetryCancelled
        /\ queries[useHolidaysKey(a, HolidayListYear)].data # None
        /\ queries[useHolidaysKey(b, HolidayListYear)].data # None

(* ---- C10 ---- *)

\* C10: per key the last request sent wins: an idle key holds the outcome
\* (data or error) of the request with the highest sequence number, and an
\* answer to an earlier request that arrives later is dropped.
C10_LastWriterWins ==
    \A k \in Keys :
        /\ hist[k].dataSeq <= hist[k].lastIssued
        /\ (queries[k].fetchStatus = "idle" /\ queries[k].status = "success")
              => hist[k].dataSeq = hist[k].lastIssued
        /\ (queries[k].fetchStatus = "idle" /\ queries[k].status = "error")
              => hist[k].errorSeq = hist[k].lastIssued

\* the answer to the later request has been stored while the earlier request
\* of the key is still on the wire
C10_Witness ==
    \E w \in wire :
        /\ w.resolved
        /\ queries[w.key].fetchStatus = "idle"
        /\ queries[w.key].status = "success"
        /\ hist[w.key].dataSeq > w.seq

(* ---- C11 ---- *)

\* C11: once a key has been fetched successfully, every later read of it
\* returns a defined value: a reader of the key never sees it without data
\* (loading) again; the loading gap occurs on the first fetch of a key only.
C11_DefinedAfterFirstFetch ==
    \A k \in Keys :
        (hist[k].fetched /\ Observers(k) # {})
            => (queries[k].data # None /\ ~IsLoading(queries[k]))

(* ---- C12 ---- *)

\* the last successful fetch of key k is less than its TTL ago: the key was
\* fetched, and the page was loaded less than the TTL ago
WithinTtl(k) ==
    /\ hist[k].fetched
    /\ now < StaleTimeOf(k)

\* a component arrives at a key: it subscribes, or the country changes
IsRead ==
    \/ \E c \in Components : Mount(c)
    \/ \E c \in Codes \cup {""} : handleCountryChange(c)

\* C12: a read of the countries key less than 30 minutes, or of a holidays
\* key less than 15 minutes, after its last successful fetch starts no
\* network call; a read of a holidays key whose TTL has elapsed leaves the
\* key fetching, with at most one request sent for it.
C12_FreshReadStartsNoCall ==
    [][IsRead =>
         \A k \in Keys :
            /\ WithinTtl(k) => hist'[k].lastIssued = hist[k].lastIssued
            /\ (/\ ~WithinTtl(k) /\ hist[k].fetched
                /\ Observers(k) = {}
                /\ ObserversOf(k, mounted', selectedCountry') # {})
                  => /\ queries'[k].fetchStatus = "fetching"
                     /\ hist'[k].lastIssued <= hist[k].lastIssued + 1]_vars

(* ---- C13 ---- *)

\* Try Again (refetch) is invoked on key k
Refetched(k) ==
    \/ k = useCountriesKey /\ CountrySelectorRetry
    \/ k = useHolidaysKey(selectedCountry, HolidayListYear) /\ HolidayListRetry

\* the backoff sequence of key k
FullBackoff(k) ==
    IF IsCountries(k) THEN <<1000, 2000, 4000>> ELSE <<1000, 2000>>

\* the current fetch cycle of key k follows a cycle that ended in error
AfterErroredCycle(k) ==
    hist[k].errorSeq > 0 /\ hist[k].errorSeq < CycleStart(k)

\* C13: refetch on an Errored key starts a fetch cycle that counts failures
\* from zero: its first request is sent at once with failure count 0, and
\* the cycle has the key's retries and backoff sequence, from 1000 ms, in full.
C13_RefetchResetsAttempts ==
    /\ [](\A k \in Keys :
            AfterErroredCycle(k) =>
                /\ queries[k].fetchStatus = "fetching"
                     => queries[k].failureCount = Len(hist[k].waits)
                /\ queries[k].phase = "inflight"
                     => hist[k].attempts = queries[k].failureCount + 1
                /\ hist[k].waits
                     = SubSeq(FullBackoff(k), 1, Len(hist[k].waits)))
    /\ [][\A k \in Keys :
            (Errored(k) /\ Refetched(k)) =>
                /\ queries'[k].failureCount = 0
                /\ queries'[k].fetchFailureReason = None
                /\ queries'[k].phase = "inflight"
                /\ hist'[k].attempts = 1
                /\ hist'[k].waits = <<>>
                /\ hist'[k].lastIssued = hist[k].lastIssued + 1]_vars

\* the countries key after Try Again: the cycle has slept 1000, 2000 and
\* 4000 ms and its 4th attempt is on the wire
C13_Witness ==
    /\ AfterErroredCycle(useCountriesKey)
    /\ hist[useCountriesKey].waits = <<1000, 2000, 4000>>
    /\ queries[useCountriesKey].phase = "inflight"
    /\ queries[useCountriesKey].failureCount = 3

(* ---- C15 ---- *)

\* the query useHolidays('') exposes
DisabledKey == useHolidaysKey("", HolidayListYear)

\* C15: while the country code is '' the holidays query is disabled: no step
\* that leaves the selection empty sends a request for a holidays key, the
\* key of the empty code is never fetched and exposes neither data nor error
\* nor loading, and HolidayList renders nothing; so initially and after the
\* selection is cleared.
C15_DisabledWhileNoCountry ==
    /\ [](/\ queries[DisabledKey].data = None
          /\ queries[DisabledKey].error = None
          /\ queries[DisabledKey].fetchStatus = "idle"
          /\ OnWire(DisabledKey) = {}
          /\ hist[DisabledKey].lastIssued = 0
          /\ \A w \in wire : IsCountries(w.key) \/ w.url.countryIsoCode # ""
          /\ selectedCountry = "" =>
                HolidayListView(selectedCountry, queries[DisabledKey]) = "null")
    /\ [][selectedCountry' = "" =>
            \A k \in HolidaysKeys : hist'[k].lastIssued = hist[k].lastIssued]_vars

\* the selection was cleared while a holidays key was waiting to retry
C15_Witness ==
    /\ selectedCountry = ""
    /\ \E k \in HolidaysKeys :
          queries[k].phase = "backoff" /\ queries[k].isRetryCancelled

(* ---- C20 ---- *)

\* C20: with the year omitted, the key HolidayList reads for the selected
\* country is ["holidays", code, currentYear]: its year component is the year
\* of the date range its requests are built for.
C20_KeyYearIsRangeYear ==
    LET k == useHolidaysKey(selectedCountry, HolidayListYear)
    IN  selectedCountry # "" =>
            /\ k = <<"holidays", selectedCountry, Some(GetFullYear(now))>>
            /\ \A w \in OnWire(k) : k[3] = Some(w.url.validFrom[1])

(* ---- C14 ---- *)

\* the entry of key k is Fresh: it holds data within its TTL
Fresh(k) ==
    /\ queries[k].data # None
    /\ ~IsStale(queries[k], StaleTimeOf(k), now)

\* C14: refetch on a key whose entry is Fresh sends a request for the key at
\* once, whatever the age of its data: the key is fetching, its new request
\* is on the wire, and the data stays in place meanwhile.
C14_RefetchBypassesFreshness ==
    [][\A k \in Keys :
         (Fresh(k) /\ Refetch(k)) =>
            /\ hist'[k].lastIssued = hist[k].lastIssued + 1
            /\ issued' = issued + 1
            /\ queries'[k].fetchStatus = "fetching"
            /\ queries'[k].phase = "inflight"
            /\ queries'[k].data = queries[k].data
            /\ \E w \in wire' \ wire :
                  w.key = k /\ w.seq = hist'[k].lastIssued /\ ~w.resolved]_vars

\* a Fresh holidays key that is being fetched again
C14_Witness ==
    \E k \in HolidaysKeys :
        /\ Fresh(k)
        /\ queries[k].status = "success"
        /\ queries[k].phase = "inflight"
        /\ Live(k) # {}

(* ---- the API client: shapes ---- *)

IsStr(v) == TypeOf(v) = "string"

IsArray(v) == TypeOf(v) = "array"

IsLocalizedText(v) ==
    /\ TypeOf(v) = "object"
    /\ IsStr(Get(v, "language"))
    /\ IsStr(Get(v, "text"))

IsLocalizedTexts(v) ==
    IsArray(v) /\ \A i \in 1..Len(ItemsOf(v)) : IsLocalizedText(ItemsOf(v)[i])

IsStrings(v) ==
    IsArray(v) /\ \A i \in 1..Len(ItemsOf(v)) : IsStr(ItemsOf(v)[i])

IsCountry(v) ==
    /\ TypeOf(v) = "object"
    /\ IsStr(Get(v, "isoCode"))
    /\ IsLocalizedTexts(Get(v, "name"))
    /\ IsStrings(Get(v, "officialLanguages"))

IsHoliday(v) ==
    /\ TypeOf(v) = "object"
    /\ \A f \in {"id", "startDate", "endDate", "type"} : IsStr(Get(v, f))
    /\ TypeOf(Get(v, "nationwide")) = "boolean"
    /\ IsLocalizedTexts(Get(v, "name"))
    /\ TypeOf(Get(v, "comment")) = "undefined" \/ IsLocalizedTexts(Get(v, "comment"))

\* the JSON value v has the shape the endpoint of the call answers with
Matches(call, v) ==
    /\ IsArray(v)
    /\ \A i \in 1..Len(ItemsOf(v)) :
          IF call.fn = "fetchCountries" THEN IsCountry(ItemsOf(v)[i])
          ELSE IsHoliday(ItemsOf(v)[i])

\* the number an index of a path stands for
IndexOf(s) == CHOOSE i \in 0..(MaxLen + 1) : ToString(i) = s

\* the value found in v along path (undefined where the path leads nowhere)
RECURSIVE ValueAt(_, _)
ValueAt(v, path) ==
    IF path = <<>> THEN v
    ELSE IF TypeOf(v) = "array"
         THEN ValueAt(v[2][IndexOf(Head(path)) + 1], Tail(path))
    ELSE IF TypeOf(v) = "object" THEN ValueAt(Get(v, Head(path)), Tail(path))
    ELSE Absent

Settled == client.stage = "settled"

(* ---- C16 ---- *)

\* C16: a 2xx response whose body parses as JSON but has not the shape of the
\* endpoint's array makes the call fail with a ValidationError ('Invalid API
\* response format') without status, whose cause is the validator's error:
\* a non-empty list of issues, each naming a place of the body where the type
\* found is not the type expected.
C16_WrongShapeIsValidation ==
    (/\ Settled
     /\ client.response.type = "http"
     /\ client.response.status \in 200..299
     /\ client.response.body.isJson
     /\ ~Matches(client.call, client.response.body.value))
        => /\ ~client.outcome.ok
           /\ LET error == client.outcome.error[1]
              IN  /\ error.name = "ValidationError"
                  /\ error.message = InvalidFormatText
                  /\ error.status = None
                  /\ error.cause # None
                  /\ error.cause[1].class = "ZodError"
                  /\ error.cause[1].issues # <<>>
                  /\ \A i \in 1..Len(error.cause[1].issues) :
                        LET issue == error.cause[1].issues[i]
                            found == ValueAt(client.response.body.value, issue.path)
                        IN  /\ issue.received = TypeOf(found)
                            /\ issue.expected # TypeOf(found)

\* fetchCountries answered 200 with an array whose second country has no name
C16_Witness ==
    /\ Settled
    /\ client.call.fn = "fetchCountries"
    /\ client.response.status = 200
    /\ client.response.body = JsonBody(JArr(<<CountryCA, CountryNoName>>))
    /\ client.outcome.error[1].cause[1].issues
         = <<InvalidType(<<"1", "name">>, "array", Absent)>>

(* ---- C17 ---- *)

\* C17: a response with a status outside 200..299 makes the call fail with a
\* HolidaysApiError carrying that status, whatever the body, which is not
\* read; the error has status 404 exactly when the response has, and it is
\* never a ValidationError.
C17_BadStatusCarried ==
    (/\ Settled
     /\ client.response.type = "http"
     /\ client.response.status \notin 200..299)
        => /\ ~client.outcome.ok
           /\ ~client.outcome.bodyUsed
           /\ LET error == client.outcome.error[1]
              IN  /\ error.name = "HolidaysApiError"
                  /\ error.status = Some(client.response.status)
                  /\ error.message
                       = ApiRequestFailedPrefix \o client.response.statusText
                  /\ error.cause = None
                  /\ ~IsValidation(error)
                  /\ IsNotFound(error) <=> client.response.status = 404

\* fetchHolidays answered 404 with a body that is JSON of the wrong shape
C17_Witness ==
    /\ Settled
    /\ client.call.fn = "fetchHolidays"
    /\ client.response.status = 404
    /\ client.response.body = JsonBody(JStr("error"))
    /\ IsNotFound(client.outcome.error[1])

(* ---- C18 ---- *)

\* the exchange in which fetch(url) itself rejects
FetchRejects == CHOOSE r \in Responses : r.type = "reject"

\* what tells one error from another besides its message: its class, whether
\* it carries a status, whether it carries a cause
Classification(e) == <<e.name, e.status # None, e.cause # None>>

UnparseableOk ==
    /\ client.response.type = "http"
    /\ client.response.status \in 200..299
    /\ ~client.response.body.isJson

\* C18: the error of a call whose fetch rejects and the error of a call
\* answered 2xx with a body that is not JSON are classified differently
\* (Transport against Unknown).
C18_TransportAndParseDiffer ==
    (Settled /\ UnparseableOk)
        => Classification(client.outcome.error[1])
             # Classification(fetchWithValidation(client.call.url,
                                 SchemaFor(client.call.url), FetchRejects).error[1])

\* C18 (amended): a call whose fetch rejects and a call answered 2xx with a
\* body that is not JSON both fail with a HolidaysApiError that has no status
\* and no cause and carries the message of the underlying error (fetch's, or
\* the JSON parser's); the two are told apart by that message only, and from
\* a ValidationError by the class and from a bad status by the missing status.
C18_BothGenericWithMessage ==
    (Settled /\ (client.response.type = "reject" \/ UnparseableOk))
        => /\ ~client.outcome.ok
           /\ LET error == client.outcome.error[1]
              IN  /\ error.name = "HolidaysApiError"
                  /\ error.status = None
                  /\ error.cause = None
                  /\ error.message = IF client.response.type = "reject"
                                     THEN client.response.statusText
                                     ELSE UnexpectedTokenText
                  /\ Classification(error)
                       = Classification(fetchWithValidation(client.call.url,
                             SchemaFor(client.call.url), FetchRejects).error[1])

\* fetchHolidays answered 200 with a body that is not JSON
C18_Witness ==
    /\ Settled
    /\ client.call.fn = "fetchHolidays"
    /\ client.response.type = "http"
    /\ client.response.status = 200
    /\ ~client.response.body.isJson
    /\ client.outcome.bodyUsed
    /\ client.outcome.error[1].message = UnexpectedTokenText

(* ---- C19 ---- *)

\* the url of /PublicHolidays for the country code and the whole of year y
HolidaysUrlOf(code, y) ==
    [path |-> "/PublicHolidays", countryIsoCode |-> code, languageIsoCode |-> "EN",
     validFrom |-> <<y, 1, 1>>, validTo |-> <<y, 12, 31>>]

\* C19: fetchHolidays(code, year) requests /PublicHolidays with
\* countryIsoCode = code, languageIsoCode = EN, validFrom = year-01-01 and
\* validTo = year-12-31 for every integer year supplied, and takes the
\* caller's current calendar year only when year is omitted.
C19_UrlFromYear ==
    (client.stage # "idle" /\ client.call.fn = "fetchHolidays")
        => client.call.url
             = HolidaysUrlOf(client.call.countryIsoCode,
                             IF client.call.year = None
                             THEN GetFullYear(client.call.at)
                             ELSE client.call.year[1])

(* ---- C21 ---- *)

CountriesAnswered ==
    /\ Settled
    /\ client.call.fn = "fetchCountries"
    /\ client.response.type = "http"
    /\ client.response.status \in 200..299
    /\ client.response.body.isJson
    /\ IsArray(client.response.body.value)

\* C21: fetchCountries answered 2xx with a JSON array.  If every element has
\* the shape of a Country (the empty array included), the call resolves with
\* an array of the same length in which isoCode, name and officialLanguages
\* of every element are those of the body; if some element lacks a required
\* field or has it of the wrong type, the call fails with a ValidationError.
C21_CountriesValidated ==
    CountriesAnswered =>
        LET in == ItemsOf(client.response.body.value)
        IN  IF \A i \in 1..Len(in) : IsCountry(in[i])
            THEN /\ client.outcome.ok
                 /\ LET out == ItemsOf(client.outcome.value[1].value)
                    IN  /\ Len(out) = Len(in)
                        /\ \A i \in 1..Len(in) :
                              /\ Get(out[i], "isoCode") = Get(in[i], "isoCode")
                              /\ Get(out[i], "officialLanguages")
                                   = Get(in[i], "officialLanguages")
                              /\ LET inName  == ItemsOf(Get(in[i], "name"))
                                     outName == ItemsOf(Get(out[i], "name"))
                                 IN  /\ Len(outName) = Len(inName)
                                     /\ \A j \in 1..Len(inName) :
                                           /\ Get(outName[j], "language")
                                                = Get(inName[j], "language")
                                           /\ Get(outName[j], "text")
                                                = Get(inName[j], "text")
            ELSE /\ ~client.outcome.ok
                 /\ IsValidation(client.outcome.error[1])

\* fetchCountries answered 200 with the two countries, and resolved
C21_Witness ==
    /\ CountriesAnswered
    /\ client.response.body.value = JArr(<<CountryUS, CountryCA>>)
    /\ client.outcome.ok
    /\ Len(ItemsOf(client.outcome.value[1].value)) = 2

(* ---- C22 ---- *)

HolidaysAnswered ==
    /\ Settled
    /\ client.call.fn = "fetchHolidays"
    /\ client.response.type = "http"
    /\ client.response.status \in 200..299
    /\ client.response.body.isJson

\* C22: fetchHolidays answered 2xx with JSON resolves exactly when the body is
\* an array of values with the fields and types of a Holiday (comment
\* optional); a holiday of the body that ends before it starts is among the
\* values resolved, with the dates it came with, and HolidayCard shows them.
C22_OnlyShapeDecides ==
    HolidaysAnswered =>
        /\ client.outcome.ok <=> Matches(client.call, client.response.body.value)
        /\ client.outcome.ok =>
             LET in  == ItemsOf(client.response.body.value)
                 out == ItemsOf(client.outcome.value[1].value)
             IN  \A i \in 1..Len(in) :
                    in[i] = HolidayBackwards
                       => /\ out[i] = HolidayBackwards
                          /\ HolidayCardDates(out[i])
                               = <<JStr("2025-05-02"), JStr("2025-05-01")>>

\* fetchHolidays answered 200 with a holiday that ends before it starts
C22_Witness ==
    /\ HolidaysAnswered
    /\ client.response.body.value = JArr(<<HolidayNewYear, HolidayBackwards>>)
    /\ client.outcome.ok
    /\ ItemsOf(client.outcome.value[1].value)[2] = HolidayBackwards

(* ---- C23 ---- *)

\* the LocalizedText values inside a Country or Holiday: its name, and its
\* comment if it has one
LocalizedTextsIn(v) ==
    {ItemsOf(Get(v, "name"))[j] : j \in 1..Len(ItemsOf(Get(v, "name")))}
      \cup {ItemsOf(Get(v, "comment"))[j] : j \in 1..Len(ItemsOf(Get(v, "comment")))}

\* C23: every LocalizedText inside a Country or Holiday value that the client
\* returns has a non-empty language code.
C23_LanguageNonEmpty ==
    (Settled /\ client.outcome.ok) =>
        LET out == ItemsOf(client.outcome.value[1].value)
        IN  \A i \in 1..Len(out) :
               \A text \in LocalizedTextsIn(out[i]) : Get(text, "language") # JStr("")

(* ---- C24 ---- *)

\* the language getLocalizedText was asked for
AskedLanguage ==
    IF client.preferredLanguage = None THEN <<"e", "n">>
    ELSE client.preferredLanguage[1]

\* the entries of the call whose language is the one asked for, letter case
\* put aside
Matching ==
    {i \in 1..Len(client.items) :
        toLowerCase(client.items[i].language) = toLowerCase(AskedLanguage)}

\* C24: getLocalizedText(items, preferred = "en") returns the text of the
\* first entry whose language equals preferred case-insensitively; if no entry
\* matches, the first entry's text; if items is empty, "Unknown" -- for all
\* lists, entries with an empty text included.
C24_FirstMatchElseFirstElseUnknown ==
    client.stage = "returned" =>
        client.result =
            IF Matching # {}
            THEN client.items[CHOOSE i \in Matching : \A j \in Matching : i <= j].text
            ELSE IF client.items # <<>> THEN client.items[1].text
            ELSE "Unknown"

(* ---- C26 ---- *)

\* the holidays key HolidayList reads
HolidayListKey == useHolidaysKey(selectedCountry, HolidayListYear)

\* C26: the selected country starts as the empty string; a change of the
\* selector sets it to the value selected (the empty value included) and
\* nothing else changes it; the <select> shows that value and the one
\* holidays key that HolidayList reads is the key of that value.
C26_SelectedIsLastSelected ==
    /\ selectedCountry = ""
    /\ [](\A k \in HolidaysKeys : Observers(k) # {} => k = HolidayListKey)
    /\ [][/\ \A c \in Codes \cup {""} : handleCountryChange(c) => selectedCountry' = c
          /\ selectedCountry' # selectedCountry
               => \E c \in Codes \cup {""} : handleCountryChange(c)]_vars

\* US is selected after CA was, and then the selection was cleared and made
\* again: the key of CA has been read before
C26_Witness ==
    /\ selectedCountry = "US"
    /\ hist[useHolidaysKey("CA", HolidayListYear)].lastIssued > 0
    /\ Observers(useHolidaysKey("US", HolidayListYear)) = {"HolidayList"}
    /\ Observers(useHolidaysKey("CA", HolidayListYear)) = {}

(* ---- C27 ---- *)

\* the values fetchWithValidation resolves with for url
ValidatedValues(url) ==
    {fetchWithValidation(url, SchemaFor(url), r).value[1] :
        r \in {x \in NetworkResponses :
                  /\ x.type = "http"
                  /\ x.status \in 200..299
                  /\ x.body.isJson
                  /\ SchemaParse(SchemaFor(url), x.body.value).success}}

IsFailedAttempt ==
    \/ \E w \in wire, r \in NetworkResponses : AttemptFails(w, r)
    \/ \E k \in Keys : RetryTimerFires(k) /\ queries[k].isRetryCancelled

\* C27: the entry of a key holds a value only if an attempt for that key was
\* answered 2xx with a body that passed the schema of the key's endpoint, and
\* the value is what the validation returned; a failed attempt (the call
\* rejects, a bad status, a body that is not JSON or does not validate)
\* leaves the value of every entry as it was.
C27_DataOnlyFromValidatedAnswer ==
    /\ [](\A k \in Keys :
            queries[k].data # None
               => /\ hist[k].fetched
                  /\ queries[k].data[1] \in ValidatedValues(queries[k].data[1].url))
    /\ [][IsFailedAttempt
            => \A k \in Keys : queries'[k].data = queries[k].data]_vars

\* the key of CA holds the holidays of an earlier answer and a later fetch
\* of the key has ended in error
C27_Witness ==
    LET q == queries[useHolidaysKey("CA", HolidayListYear)]
    IN  /\ q.data # None
        /\ q.status = "error"
        /\ q.error # None

(* ---- C29 ---- *)

\* C29: whenever HolidayList renders holidays (or the empty message) for the
\* country just selected, under a heading that names year Y, the data shown
\* was fetched for the range Y-01-01..Y-12-31; also when the data is served
\* from the cache after the calendar year has changed.
C29_HeadingYearIsDataYear ==
    [][\A c \in Codes :
          (/\ handleCountryChange(c)
           /\ queries'[useHolidaysKey(c, HolidayListYear)].data # None
           /\ HolidayListView(c, queries'[useHolidaysKey(c, HolidayListYear)])
                \in {"list", "empty"})
             => LET url == queries'[useHolidaysKey(c, HolidayListYear)].data[1].url
                IN  /\ url.validFrom = <<HolidayListCurrentYear(now'), 1, 1>>
                    /\ url.validTo = <<HolidayListCurrentYear(now'), 12, 31>>]_vars

(* ---- C25 ---- *)

\* the holidays HolidayList got from useHolidays are a non-empty array
HasHolidays(q) == q.data # None /\ ItemsOf(q.data[1].value) # <<>>

\* C25: for a non-empty country code HolidayList renders one view, by this
\* priority: the error display whenever error is set, and its Try Again
\* refetches the key; else the skeleton when isLoading; else the list when
\* data is a non-empty array; else the 'No public holidays found' message.
\* An answer with an empty array gives the empty message, not an error.
C25_OneViewByPriority ==
    /\ [](("HolidayList" \in mounted /\ selectedCountry # "") =>
            LET q    == queries[HolidayListKey]
                view == HolidayListView(selectedCountry, q)
            IN  /\ q.error # None => view = "error"
                /\ (q.error = None /\ IsLoading(q)) => view = "skeleton"
                /\ (q.error = None /\ ~IsLoading(q) /\ HasHolidays(q)) => view = "list"
                /\ (q.error = None /\ ~IsLoading(q) /\ ~HasHolidays(q)) => view = "empty")
    /\ [][/\ HolidayListRetry
             => /\ HolidayListView(selectedCountry, queries[HolidayListKey]) = "error"
                /\ queries'[HolidayListKey].fetchStatus = "fetching"
          /\ \A w \in wire, r \in PageResponses :
                (/\ AttemptSucceeds(w, r)
                 /\ w.key = HolidayListKey
                 /\ ~IsResolved(w)
                 /\ r.body = EmptyBody)
                   => HolidayListView(selectedCountry, queries'[HolidayListKey])
                        = "empty"]_vars

\* CA is selected, its answer had no holidays, and the empty message shows
C25_Witness ==
    /\ mounted = Components
    /\ selectedCountry = "CA"
    /\ queries[HolidayListKey].data # None
    /\ queries[HolidayListKey].data[1].value = JArr(<<>>)
    /\ HolidayListView(selectedCountry, queries[HolidayListKey]) = "empty"

(* ---- C28 ---- *)

\* C28: once ErrorBoundary has caught an error thrown by a descendant it
\* renders the failure view (the fallback it was given, else the generic
\* message with Refresh Page) and not its children, in every state that
\* follows: hasError goes back to false only by a reload of the page.
C28_FailureViewUntilReload ==
    /\ [](boundary.hasError =>
            /\ mounted = {}
            /\ boundary.error # None
            /\ \A fallback \in Fallbacks :
                  ErrorBoundaryRender(boundary, fallback)
                    = IF fallback = None THEN "Something went wrong"
                      ELSE fallback[1])
    /\ [][/\ \A error \in RenderErrors : RenderThrows(error) => boundary'.hasError
          /\ (boundary.hasError /\ ~boundary'.hasError) => Reload]_vars

\* the boundary has caught an error while CA was selected and its holidays
\* were on their way
C28_Witness ==
    /\ boundary.hasError
    /\ selectedCountry = "CA"
    /\ wire # {}
    /\ \A fallback \in Fallbacks : ErrorBoundaryRender(boundary, fallback) # "children"

(* ---- C30 ---- *)

\* the two keys of the holidays of country c: year left out, current year
KeyNoYear(c) == useHolidaysKey(c, None)

KeyThisYear(c) == useHolidaysKey(c, Some(GetFullYear(now)))

\* C30: useHolidays(code) and useHolidays(code, Y), Y the current year, have
\* different keys and request the same url; a read of either key that holds
\* nothing and fetches nothing sends a request, whatever the other key holds,
\* and the data of a key changes only by the answer to a request of that key.
C30_TwoKeysOneUrl ==
    /\ [](\A c \in Codes :
            /\ KeyNoYear(c) # KeyThisYear(c)
            /\ fetchHolidays(c, None, now)
                 = fetchHolidays(c, Some(GetFullYear(now)), now))
    /\ [][/\ \A c \in Codes, year \in {HolidayListYear, ReaderYear} :
                (/\ UseHolidaysRead(c, year)
                 /\ queries[useHolidaysKey(c, year)].data = None
                 /\ queries[useHolidaysKey(c, year)].fetchStatus = "idle")
                   => /\ issued' = issued + 1
                      /\ \E w \in wire' \ wire : w.key = useHolidaysKey(c, year)
          /\ \A k \in Keys :
                queries'[k].data # queries[k].data
                   => \E w \in wire \ wire' : w.key = k]_vars

\* the holidays of CA are stored under the key without year, and the read
\* with the current year has sent its own request for the same url
C30_Witness ==
    /\ queries[KeyNoYear("CA")].data # None
    /\ queries[KeyThisYear("CA")].data = None
    /\ \E w \in wire :
          /\ w.key = KeyThisYear("CA")
          /\ w.url = queries[KeyNoYear("CA")].data[1].url

====
